---- MODULE Spec2Model ----
(***************************************************************************)
(* Model of the MOEX history downloader:                                   *)
(*   - history.Fetcher.Fetch and the two older getOHLC copies (paginated   *)
(*     CSV retrieval),                                                     *)
(*   - ProcessStocks (equities, one period per calendar month),            *)
(*   - ProcessContracts (futures, one period per quarterly roll),          *)
(*   - the errgroup the two drivers run their workers in.                  *)
(*                                                                         *)
(* Text is a sequence of one-character strings, so that parsing and        *)
(* formatting are computed and not assumed.  A date is a record of its     *)
(* civil fields (UTC), a day is a count of days since 1970-01-01.          *)
(* A float64 is the decimal m * 10^p it was parsed from (m without         *)
(* trailing zeros); the numeric cells of the model have at most 9          *)
(* significant digits, for which float64 round-trips the decimal exactly   *)
(* and the values stay inside the integers of TLC.                        *)
(***************************************************************************)
EXTENDS Integers, Sequences, FiniteSets, TLC

----------------------------------------------------------------------------
(* Program constants *)

\* gr.SetLimit(4)
Limit == 4

\* if batchSize < 500 { break }
PageLimit == 500

\* strconv's %e/%f switch for the shortest 'g' format (eprec = 6, exp < -4)
GExpHigh == 6

\* http.StatusOK
StatusOK == 200

----------------------------------------------------------------------------
(* Text helpers *)

Digits == <<"0", "1", "2", "3", "4", "5", "6", "7", "8", "9">>

IsDigit(c) == \E i \in 1..10 : Digits[i] = c

DigitVal(c) == (CHOOSE i \in 1..10 : Digits[i] = c) - 1

AllDigits(s) == \A i \in 1..Len(s) : IsDigit(s[i])

RECURSIVE NatOf(_)
\* value of a run of decimal digits
NatOf(s) ==
    IF s = <<>> THEN 0
    ELSE 10 * NatOf(SubSeq(s, 1, Len(s) - 1)) + DigitVal(s[Len(s)])

RECURSIVE NatStr(_)
\* decimal digits of a natural number, no padding
NatStr(n) ==
    IF n < 10 THEN <<Digits[n + 1]>>
    ELSE NatStr(n \div 10) \o <<Digits[(n % 10) + 1]>>

RECURSIVE Zeros(_)
Zeros(k) == IF k <= 0 THEN <<>> ELSE <<"0">> \o Zeros(k - 1)

\* decimal digits left-padded with zeros to width w
Pad(n, w) == Zeros(w - Len(NatStr(n))) \o NatStr(n)

RECURSIVE Pow10(_)
Pow10(k) == IF k <= 0 THEN 1 ELSE 10 * Pow10(k - 1)

RECURSIVE IndexOf(_, _, _)
\* first index >= i of character c in s, 0 when absent
IndexOf(s, c, i) ==
    IF i > Len(s) THEN 0
    ELSE IF s[i] = c THEN i
    ELSE IndexOf(s, c, i + 1)

----------------------------------------------------------------------------
(* Calendar: time.Date, AddDate, Weekday, After *)

IsLeap(y) == (y % 4 = 0) /\ ((y % 100 # 0) \/ (y % 400 = 0))

DaysIn(y, m) ==
    IF m = 2 THEN (IF IsLeap(y) THEN 29 ELSE 28)
    ELSE IF m \in {4, 6, 9, 11} THEN 30
    ELSE 31

\* days since 1970-01-01 of civil date y-m-d, 1 <= m <= 12, any d
\* (time.Date normalises a day outside the month by plain day arithmetic)
DaysFromCivil(y, m, d) ==
    LET yy  == IF m <= 2 THEN y - 1 ELSE y
        era == yy \div 400
        yoe == yy - era * 400
        mp  == (m + 9) % 12
        doy == (153 * mp + 2) \div 5 + d - 1
        doe == yoe * 365 + yoe \div 4 - yoe \div 100 + doy
    IN  era * 146097 + doe - 719468

\* time.Date(y, m, d, ...) with the month normalised too (m may be 13)
DateDay(y, m, d) ==
    LET y2 == y + (m - 1) \div 12
        m2 == ((m - 1) % 12) + 1
    IN  DaysFromCivil(y2, m2, d)

\* civil fields of a day number
CivilFromDays(z0) ==
    LET z   == z0 + 719468
        era == z \div 146097
        doe == z - era * 146097
        yoe == (doe - doe \div 1460 + doe \div 36524 - doe \div 146096) \div 365
        doy == doe - (365 * yoe + yoe \div 4 - yoe \div 100)
        mp  == (5 * doy + 2) \div 153
        d   == doy - (153 * mp + 2) \div 5 + 1
        m   == IF mp < 10 THEN mp + 3 ELSE mp - 9
        y   == yoe + era * 400 + (IF m <= 2 THEN 1 ELSE 0)
    IN  [y |-> y, m |-> m, d |-> d]

\* time.Weekday of a day number: Sunday = 0 ... Saturday = 6
Weekday(day) == (day + 4) % 7

----------------------------------------------------------------------------
(* strconv.ParseInt(s, 10, 64), strconv.ParseFloat(s, 64), time.Parse *)
(* The cells of the model are written with the digits, "+", "-", ".", ":", *)
(* " " and the letter "x"; on these the three parsers below accept exactly *)
(* what the library accepts.                                               *)

\* the digits of 1<<63 - 1, the largest int64
MaxInt64Digits ==
    <<"9", "2", "2", "3", "3", "7", "2", "0", "3", "6",
      "8", "5", "4", "7", "7", "5", "8", "0", "7">>

SignLen(s) == IF Len(s) > 0 /\ s[1] \in {"+", "-"} THEN 1 ELSE 0

RECURSIVE StripZeros(_)
StripZeros(s) ==
    IF Len(s) > 1 /\ s[1] = "0" THEN StripZeros(SubSeq(s, 2, Len(s))) ELSE s

RECURSIVE DigitsGreater(_, _)
\* a > b for two digit strings of the same length
DigitsGreater(a, b) ==
    IF a = <<>> THEN FALSE
    ELSE IF DigitVal(a[1]) # DigitVal(b[1]) THEN DigitVal(a[1]) > DigitVal(b[1])
    ELSE DigitsGreater(Tail(a), Tail(b))

\* the magnitude ds (digits) does not fit an int64 of the given sign
OutOfInt64(ds, neg) ==
    LET z == StripZeros(ds)
    IN  \/ Len(z) > Len(MaxInt64Digits)
        \/ /\ Len(z) = Len(MaxInt64Digits)
           /\ DigitsGreater(z, MaxInt64Digits)
           /\ ~(neg /\ z = SubSeq(MaxInt64Digits, 1, 18) \o <<"8">>)

\* strconv.ParseInt(s, 10, 64): [ok, v]
ParseInt(s) ==
    LET k    == SignLen(s)
        body == SubSeq(s, k + 1, Len(s))
        neg  == k = 1 /\ s[1] = "-"
    IN  IF body = <<>> \/ ~AllDigits(body) THEN [ok |-> FALSE, v |-> 0]
        ELSE IF OutOfInt64(body, neg) THEN [ok |-> FALSE, v |-> 0]
        ELSE [ok |-> TRUE, v |-> IF neg THEN 0 - NatOf(body) ELSE NatOf(body)]

RECURSIVE Normalize(_, _)
\* the decimal m * 10^p with the trailing zeros of m moved into p
Normalize(m, p) ==
    IF m = 0 THEN [m |-> 0, p |-> 0]
    ELSE IF m % 10 = 0 THEN Normalize(m \div 10, p + 1)
    ELSE [m |-> m, p |-> p]

\* strconv.ParseFloat(s, 64): [ok, v], v = [neg, m, p]
ParseFloat(s) ==
    LET k    == SignLen(s)
        body == SubSeq(s, k + 1, Len(s))
        neg  == k = 1 /\ s[1] = "-"
        dot  == IndexOf(body, ".", 1)
        ip   == IF dot = 0 THEN body ELSE SubSeq(body, 1, dot - 1)
        fp   == IF dot = 0 THEN <<>> ELSE SubSeq(body, dot + 1, Len(body))
        bad  == [ok |-> FALSE, v |-> [neg |-> FALSE, m |-> 0, p |-> 0]]
    IN  IF ~AllDigits(ip) \/ ~AllDigits(fp) \/ (ip = <<>> /\ fp = <<>>) THEN bad
        ELSE LET n == Normalize(NatOf(ip \o fp), 0 - Len(fp))
             IN  [ok |-> TRUE, v |-> [neg |-> neg, m |-> n.m, p |-> n.p]]

\* time's getnum: one or two digits (exactly two when fixed): [ok, v, rest]
GetNum(s, fixed) ==
    IF Len(s) = 0 \/ ~IsDigit(s[1]) THEN [ok |-> FALSE, v |-> 0, rest |-> s]
    ELSE IF Len(s) < 2 \/ ~IsDigit(s[2])
         THEN IF fixed THEN [ok |-> FALSE, v |-> 0, rest |-> s]
              ELSE [ok |-> TRUE, v |-> DigitVal(s[1]), rest |-> SubSeq(s, 2, Len(s))]
    ELSE [ok |-> TRUE, v |-> 10 * DigitVal(s[1]) + DigitVal(s[2]),
          rest |-> SubSeq(s, 3, Len(s))]

\* time's skip for a one-character literal of the layout
SkipChar(s, c) ==
    IF Len(s) = 0 \/ s[1] # c THEN [ok |-> FALSE, rest |-> s]
    ELSE [ok |-> TRUE, rest |-> SubSeq(s, 2, Len(s))]

RECURSIVE CutSpace(_)
CutSpace(s) == IF Len(s) > 0 /\ s[1] = " " THEN CutSpace(SubSeq(s, 2, Len(s))) ELSE s

\* time's skip for the layout's space: a run of spaces, or the end of the value
SkipSpace(s) ==
    IF Len(s) > 0 /\ s[1] # " " THEN [ok |-> FALSE, rest |-> s]
    ELSE [ok |-> TRUE, rest |-> CutSpace(s)]

RECURSIVE DigitRun(_, _)
\* length of the run of digits of s from index i
DigitRun(s, i) == IF i <= Len(s) /\ IsDigit(s[i]) THEN 1 + DigitRun(s, i + 1) ELSE 0

NoDate == [y |-> 0, m |-> 0, d |-> 0, hh |-> 0, mm |-> 0, ss |-> 0, ns |-> 0]

\* time.Parse("2006-01-02 15:04:05", s): [ok, v]
ParseDate(s) ==
    LET bad == [ok |-> FALSE, v |-> NoDate]
    IN  IF Len(s) < 4 \/ ~AllDigits(SubSeq(s, 1, 4)) THEN bad ELSE
        LET year == NatOf(SubSeq(s, 1, 4))
            a1   == SkipChar(SubSeq(s, 5, Len(s)), "-")
        IN  IF ~a1.ok THEN bad ELSE
        LET mo == GetNum(a1.rest, TRUE) IN
            IF ~mo.ok \/ mo.v < 1 \/ mo.v > 12 THEN bad ELSE
        LET a2 == SkipChar(mo.rest, "-") IN
            IF ~a2.ok THEN bad ELSE
        LET dy == GetNum(a2.rest, TRUE) IN
            IF ~dy.ok THEN bad ELSE
        LET a3 == SkipSpace(dy.rest) IN
            IF ~a3.ok THEN bad ELSE
        LET hr == GetNum(a3.rest, FALSE) IN
            IF ~hr.ok \/ hr.v >= 24 THEN bad ELSE
        LET a4 == SkipChar(hr.rest, ":") IN
            IF ~a4.ok THEN bad ELSE
        LET mi == GetNum(a4.rest, TRUE) IN
            IF ~mi.ok \/ mi.v >= 60 THEN bad ELSE
        LET a5 == SkipChar(mi.rest, ":") IN
            IF ~a5.ok THEN bad ELSE
        LET se == GetNum(a5.rest, TRUE) IN
            IF ~se.ok \/ se.v >= 60 THEN bad ELSE
        LET r    == se.rest
            frac == Len(r) >= 2 /\ r[1] = "." /\ IsDigit(r[2])
            n    == IF frac THEN DigitRun(r, 2) ELSE 0
            fd   == SubSeq(r, 2, 1 + (IF n > 9 THEN 9 ELSE n))
            ns   == IF frac THEN NatOf(fd) * Pow10(9 - Len(fd)) ELSE 0
            tail == IF frac THEN SubSeq(r, n + 2, Len(r)) ELSE r
        IN  IF tail # <<>> THEN bad
            ELSE IF dy.v < 1 \/ dy.v > DaysIn(year, mo.v) THEN bad
            ELSE [ok |-> TRUE,
                  v |-> [y |-> year, m |-> mo.v, d |-> dy.v,
                         hh |-> hr.v, mm |-> mi.v, ss |-> se.v, ns |-> ns]]

----------------------------------------------------------------------------
(* Formatting: Time.Format and fmt's %g, %d *)

\* Date.Format("20060102")
FormatYMD(t) == Pad(t.y, 4) \o Pad(t.m, 2) \o Pad(t.d, 2)

\* Date.Format("15:04:05")
FormatHMS(t) == Pad(t.hh, 2) \o <<":">> \o Pad(t.mm, 2) \o <<":">> \o Pad(t.ss, 2)

\* %d
FormatInt(n) == IF n < 0 THEN <<"-">> \o NatStr(0 - n) ELSE NatStr(n)

\* digit j (0-based) of the digit string ds, "0" outside it
DigitAt(ds, j) == IF j >= 0 /\ j < Len(ds) THEN ds[j + 1] ELSE "0"

\* strconv's %e of the shortest digits ds with decimal point position dp
FmtE(ds, dp) ==
    LET nd   == Len(ds)
        exp  == IF nd = 0 THEN 0 ELSE dp - 1
        aexp == IF exp < 0 THEN 0 - exp ELSE exp
    IN  <<DigitAt(ds, 0)>>
        \o (IF nd > 1 THEN <<".">> \o SubSeq(ds, 2, nd) ELSE <<>>)
        \o <<"e", IF exp < 0 THEN "-" ELSE "+">>
        \o (IF aexp < 10 THEN <<"0">> \o NatStr(aexp) ELSE NatStr(aexp))

\* strconv's %f of the shortest digits ds with decimal point position dp
FmtF(ds, dp) ==
    LET nd   == Len(ds)
        prec == IF nd - dp > 0 THEN nd - dp ELSE 0
    IN  (IF dp > 0 THEN [i \in 1..dp |-> DigitAt(ds, i - 1)] ELSE <<"0">>)
        \o (IF prec > 0
            THEN <<".">> \o [i \in 1..prec |-> DigitAt(ds, dp + i - 1)]
            ELSE <<>>)

\* %g of a float64
FormatG(v) ==
    LET ds  == IF v.m = 0 THEN <<>> ELSE NatStr(v.m)
        dp  == IF v.m = 0 THEN 0 ELSE Len(ds) + v.p
        exp == dp - 1
    IN  (IF v.neg THEN <<"-">> ELSE <<>>)
        \o (IF exp < -4 \/ exp >= GExpHigh THEN FmtE(ds, dp) ELSE FmtF(ds, dp))

----------------------------------------------------------------------------
(* The remote source and one page of Fetch                                 *)
(*                                                                         *)
(* A response is [neterr, status, body]; body is what csv.Reader (Comma =  *)
(* ';') yields for it: a sequence of records, each a non-empty sequence of *)
(* cells.  A source is a non-empty sequence of responses: request k is     *)
(* answered by response k, and the last response answers every later       *)
(* request.                                                                *)

ColBegin  == <<"b", "e", "g", "i", "n">>
ColOpen   == <<"o", "p", "e", "n">>
ColHigh   == <<"h", "i", "g", "h">>
ColLow    == <<"l", "o", "w">>
ColClose  == <<"c", "l", "o", "s", "e">>
ColVolume == <<"v", "o", "l", "u", "m", "e">>

\* the names Fetch looks up, in the order it decodes them
FieldNames == <<ColBegin, ColOpen, ColHigh, ColLow, ColClose, ColVolume>>

\* the three implementations of the paginated fetch
FetcherFetch  == "Fetcher.Fetch"
GetOHLCShares == "getOHLC(shares)"
GetOHLCForts  == "getOHLC(forts)"

\* only the shares copy of getOHLC looks at resp.StatusCode
ChecksStatus(impl) == impl = GetOHLCShares

\* the error messages, by implementation
ErrHttpGet(impl)   == IF impl = FetcherFetch THEN "http get" ELSE "failed to fetch data"
ErrStatus          == "unexpected status code"
ErrSkipHeader(impl) ==
    IF impl = FetcherFetch THEN "skip csv header rows" ELSE "failed to read header"
ErrReadColumns(impl) ==
    IF impl = FetcherFetch THEN "read csv header columns" ELSE "failed to read header"
ErrReadRow(impl)   == IF impl = FetcherFetch THEN "read csv row" ELSE "failed to read record"
ErrField(impl) ==
    IF impl = FetcherFetch
    THEN <<"parse date column", "parse open column", "parse high column",
           "parse low column", "parse close column", "parse volume column">>
    ELSE <<"failed to parse date", "failed to parse open price",
           "failed to parse high price", "failed to parse low price",
           "failed to parse close price", "failed to parse volume">>

NetworkErrors == {"http get", "failed to fetch data", ErrStatus}

NoErr == "nil"

\* columns[name] after `for indx, name := range column { columns[name] = indx }`:
\* the last index (0-based) holding the name, and the map's zero value 0 when
\* no column holds it
\* columns read at the positions they have in the canonical order
ColumnIndexFixed(column, name) ==
    CASE name = ColOpen   -> 0
      [] name = ColClose  -> 1
      [] name = ColHigh   -> 2
      [] name = ColLow    -> 3
      [] name = ColVolume -> 5
      [] name = ColBegin  -> 6
      [] OTHER            -> 0

ColumnIndex(column, name) ==
    LET at == {i \in 1..Len(column) : column[i] = name}
    IN  IF at = {} THEN 0 ELSE (CHOOSE i \in at : \A j \in at : j <= i) - 1

\* the cell a field is decoded from: row[columns[name]]
CellOf(row, column, name) == row[ColumnIndex(column, name) + 1]

\* the conversions of the cells of a row, in the order Fetch makes them:
\* [ok, v] each
ParseRow(row, column) ==
    [Date   |-> ParseDate(CellOf(row, column, ColBegin)),
     Open   |-> ParseFloat(CellOf(row, column, ColOpen)),
     High   |-> ParseFloat(CellOf(row, column, ColHigh)),
     Low    |-> ParseFloat(CellOf(row, column, ColLow)),
     Close  |-> ParseFloat(CellOf(row, column, ColClose)),
     Volume |-> ParseInt(CellOf(row, column, ColVolume))]

\* index (1..6) of the first field of the row that fails to convert, 0 if none
FirstBadField(p) ==
    IF ~p.Date.ok THEN 1
    ELSE IF ~p.Open.ok THEN 2
    ELSE IF ~p.High.ok THEN 3
    ELSE IF ~p.Low.ok THEN 4
    ELSE IF ~p.Close.ok THEN 5
    ELSE IF ~p.Volume.ok THEN 6
    ELSE 0

\* the OHLCV of converted cells
Decoded(p) ==
    [Date |-> p.Date.v, Open |-> p.Open.v, High |-> p.High.v, Low |-> p.Low.v,
     Close |-> p.Close.v, Volume |-> p.Volume.v]

\* the OHLCV appended for a row that decodes
DecodeRow(row, column) == Decoded(ParseRow(row, column))

\* What one data row does to the fetch: the error it ends it with, or NoErr
\* and the OHLCV appended.  csv.Reader reports a record whose field count
\* differs from the column row's (FieldsPerRecord = 0 before that row is
\* read) as an error.
DecodeOrFail(impl, row, column) ==
    IF Len(row) # Len(column) THEN [err |-> ErrReadRow(impl), v |-> <<>>]
    ELSE LET p   == ParseRow(row, column)
             bad == FirstBadField(p)
         IN  IF bad # 0 THEN [err |-> ErrField(impl)[bad], v |-> <<>>]
             ELSE [err |-> NoErr, v |-> Decoded(p)]

\* the data rows of a body: everything after the two header records
DataRows(body) == SubSeq(body, 3, Len(body))

\* the state of the loop of Fetch: the offset cursor, the records so far,
\* the offsets requested so far, whether it returned, and with what error
FetchStart ==
    [start |-> 0, result |-> <<>>, reqs |-> <<>>, done |-> FALSE, err |-> NoErr]

\* a failure that hands back the records decoded so far
FetchFailPartial(st, e) ==
    [start |-> st.start, result |-> st.result, reqs |-> st.reqs, done |-> TRUE, err |-> e]

\* `return nil, err`
FetchFail(st, e) ==
    [start |-> st.start, result |-> <<>>, reqs |-> st.reqs, done |-> TRUE, err |-> e]

\* a loop that ends at an empty page only
ExhaustedAtEmpty(batchSize) == batchSize = 0

\* if batchSize < 500 { break }
Exhausted(batchSize) == batchSize < PageLimit

\* a cursor that advances by the page limit
AdvanceByLimit(start, batchSize) == start + PageLimit

\* start += batchSize
Advance(start, batchSize) == start + batchSize

\* One iteration of the loop of Fetch: the request at offset st.start is
\* answered by resp.
FetchPage(impl, st, resp) ==
    LET st1 == [st EXCEPT !.reqs = Append(@, st.start)]
    IN  IF resp.neterr THEN FetchFail(st1, ErrHttpGet(impl))
        ELSE IF ChecksStatus(impl) /\ resp.status # StatusOK THEN FetchFail(st1, ErrStatus)
        ELSE IF Len(resp.body) < 1 THEN FetchFail(st1, ErrSkipHeader(impl))
        ELSE IF Len(resp.body) < 2 THEN FetchFail(st1, ErrReadColumns(impl))
        ELSE
        LET column    == resp.body[2]
            rows      == DataRows(resp.body)
            batchSize == Len(rows)
            decoded   == <<>> \o [i \in 1..batchSize |-> DecodeOrFail(impl, rows[i], column)]
            bad       == {i \in 1..batchSize : decoded[i].err # NoErr}
        IN  IF bad # {}
            THEN FetchFail(st1, decoded[CHOOSE i \in bad : \A j \in bad : i <= j].err)
            ELSE LET res == st1.result \o [i \in 1..batchSize |-> decoded[i].v]
                 IN  IF Exhausted(batchSize)
                     THEN [st1 EXCEPT !.result = res, !.done = TRUE]
                     ELSE [st1 EXCEPT !.result = res, !.start = Advance(@, batchSize)]

----------------------------------------------------------------------------
(* Bounds of the inputs *)

\* the longest list of instruments of a run
MaxInstr == 5

\* the most periods' worth of work of a run: instruments times years
MaxWork == 2

\* the most days the clock advances during a run
MaxTicks == 1

\* the longest paged source, in responses
MaxPages == 2

\* the most requests one Fetch is followed for
MaxRequests == 3

\* the most records of a period written when a WriteString may fail
MaxFailAt == 1

\* the first year of the year ranges
BaseYear == 2024

\* the number of years before the base year a one-year derivative run may
\* start in
MaxRollYears == 8

----------------------------------------------------------------------------
(* Responses of the remote source used as inputs *)

Banner == <<<<"c", "a", "n", "d", "l", "e", "s">>>>

ColValue == <<"v", "a", "l", "u", "e">>
ColEnd   == <<"e", "n", "d">>

\* the column row as the exchange sends it
CanonicalColumns ==
    <<ColOpen, ColClose, ColHigh, ColLow, ColValue, ColVolume, ColBegin, ColEnd>>

\* "YYYY-MM-DD HH:MM:00" of the r-th minute after 10:00 of a day
MinuteStamp(day, r) ==
    LET c == CivilFromDays(day + r \div 840)
        t == r % 840
    IN  Pad(c.y, 4) \o <<"-">> \o Pad(c.m, 2) \o <<"-">> \o Pad(c.d, 2) \o <<" ">>
        \o Pad(10 + t \div 60, 2) \o <<":">> \o Pad(t % 60, 2) \o <<":", "0", "0">>

\* the r-th one-minute candle of the series that starts on a day, in the
\* canonical column order
GoodRow(day, r) ==
    LET k == (day + r) % 7
    IN  <<NatStr(100 + k) \o <<".", "5">>, NatStr(101 + k), NatStr(103 + k),
          NatStr(99 + k) \o <<".", "2", "5">>, NatStr(1000 + r), NatStr(10 + r),
          MinuteStamp(day, r), MinuteStamp(day, r + 1)>>

\* the same candle with a cell that does not convert in column c (1..8)
BadRow(day, r, c) == [GoodRow(day, r) EXCEPT ![c] = <<"x">>]

\* a well-formed page holding the n candles after the first `from`
GoodBody(day, from, n) ==
    Banner \o <<CanonicalColumns>> \o [i \in 1..n |-> GoodRow(day, from + i)]

\* a well-formed page whose k-th row has a bad cell in column c
BadCellBody(day, from, n, k, c) ==
    Banner \o <<CanonicalColumns>>
    \o [i \in 1..n |-> IF i = k THEN BadRow(day, from + i, c) ELSE GoodRow(day, from + i)]

DropAt(row, c) == SubSeq(row, 1, c - 1) \o SubSeq(row, c + 1, Len(row))

\* the orders of the columns a server may choose: the canonical order
\* rotated by 0..7 places, as it is (0..7) or reversed (8..15)
ColumnOrders == 0..(2 * Len(CanonicalColumns) - 1)

\* a row with its cells in the order p
Permuted(row, p) ==
    LET n   == Len(row)
        rot == [j \in 1..n |-> row[((j - 1 + p) % n) + 1]]
    IN  IF p < n THEN rot ELSE [j \in 1..n |-> rot[n + 1 - j]]

\* a well-formed page whose columns, names and cells, are in the order p
PermutedBody(day, from, n, p) ==
    Banner \o <<Permuted(CanonicalColumns, p)>>
    \o [i \in 1..n |-> Permuted(GoodRow(day, from + i), p)]

\* a page whose column row lacks the column at position c (its cells too)
MissingColumnBody(day, from, n, c) ==
    Banner \o <<DropAt(CanonicalColumns, c)>>
    \o [i \in 1..n |-> DropAt(GoodRow(day, from + i), c)]

\* a page whose only data row is one cell short
ShortRowBody(day, from) ==
    Banner \o <<CanonicalColumns>> \o <<SubSeq(GoodRow(day, from + 1), 1, 7)>>

\* A response is described by its transport outcome, its status and the shape
\* of its body; the body is written out when the response is read.
Resp(neterr, status, shape, day, from, n, k, c) ==
    [neterr |-> neterr, status |-> status, shape |-> shape,
     day |-> day, from |-> from, n |-> n, k |-> k, c |-> c]

NetErr == Resp(TRUE, 0, "empty", 0, 0, 0, 0, 0)

OkResp(shape, day, from, n, k, c) == Resp(FALSE, StatusOK, shape, day, from, n, k, c)

GoodPage(day, from, n) == OkResp("good", day, from, n, 0, 0)

Body(d) ==
    CASE d.shape = "empty"   -> <<>>
      [] d.shape = "banner"  -> Banner
      [] d.shape = "short"   -> ShortRowBody(d.day, d.from)
      [] d.shape = "good"    -> GoodBody(d.day, d.from, d.n)
      [] d.shape = "badcell" -> BadCellBody(d.day, d.from, d.n, d.k, d.c)
      [] d.shape = "missing" -> MissingColumnBody(d.day, d.from, d.n, d.c)
      [] d.shape = "permuted" -> PermutedBody(d.day, d.from, d.n, d.k)

\* what http.Get hands to Fetch for a described response
Answer(d) == [neterr |-> d.neterr, status |-> d.status, body |-> Body(d)]

\* the response of a source to its k-th request
Respond(src, k) == Answer(src[IF k < Len(src) THEN k ELSE Len(src)])

\* numbers of rows of the pages of a paged source
PageSizes == {0, 10, PageLimit - 1, PageLimit, PageLimit + 1}

RECURSIVE SumSeq(_)
SumSeq(q) == IF q = <<>> THEN 0 ELSE q[1] + SumSeq(Tail(q))

\* the source that serves pages of the given sizes from one series, each
\* page starting where the previous one ended
PagedSource(day, sizes) ==
    [k \in 1..Len(sizes) |-> GoodPage(day, SumSeq(SubSeq(sizes, 1, k - 1)), sizes[k])]

\* the page sizes of a server that pages a series: the pages before the last
\* are full
SizeSeqs ==
    {q \in UNION {[1..n -> PageSizes] : n \in 1..MaxPages} :
        \A k \in 1..(Len(q) - 1) : q[k] >= PageLimit}

\* responses that are not a well-formed page of status 200
FaultyResponses(day, from) ==
    {NetErr,
     Resp(FALSE, 500, "good", day, from, 3, 0, 0),
     Resp(FALSE, 404, "empty", 0, 0, 0, 0, 0),
     OkResp("empty", 0, 0, 0, 0, 0),
     OkResp("banner", 0, 0, 0, 0, 0),
     OkResp("short", day, from, 1, 0, 0)}
    \cup {OkResp("badcell", day, from, 3, 2, c) : c \in 1..8}
    \cup {OkResp("missing", day, from, 2, 0, c) : c \in 1..8}
    \cup {OkResp("missing", day, from, 0, 0, c) : c \in {6, 7}}

\* a well-formed page with its columns in the order p
PermutedPage(day, from, n, p) == OkResp("permuted", day, from, n, p, 0)

\* sources whose pages have their columns in another order: one short page
\* in each order, and a full page and a short one in two different orders
PermutedSources(day) ==
    {<<PermutedPage(day, 0, 10, p)>> : p \in ColumnOrders}
    \cup {<<PermutedPage(day, 0, PageLimit, 3), PermutedPage(day, PageLimit, 10, 12)>>}

\* the sources of the paged remote: every sequence of page sizes, every
\* faulty response as the first page or after a full page, and the pages
\* with their columns in another order
PagedSources(day) ==
    {PagedSource(day, q) : q \in SizeSeqs}
    \cup {<<r>> : r \in FaultyResponses(day, 0)}
    \cup {<<GoodPage(day, 0, PageLimit), r>> : r \in FaultyResponses(day, PageLimit)}
    \cup PermutedSources(day)

\* the number of candles the plain remote holds for a period
PlainRows(day) == day % 3

\* the sources of the plain remote: the period's candles in one short page,
\* a transport failure, or a page whose second row has a malformed volume
PlainSources(day) ==
    {<<GoodPage(day, 0, PlainRows(day))>>,
     <<NetErr>>,
     <<OkResp("badcell", day, 0, 2, 2, 6)>>}

Plain == "plain"
Paged == "paged"

\* what the remote may answer a Fetch for the period starting on a day with
SourcesFor(rem, day) == IF rem = Paged THEN PagedSources(day) ELSE PlainSources(day)

----------------------------------------------------------------------------
(* The output files *)

\* header := "<DATE>,<TIME>,<OPEN>,<HIGH>,<LOW>,<CLOSE>,<VOL>\n"
Header ==
    <<"<", "D", "A", "T", "E", ">", ",", "<", "T", "I", "M", "E", ">",
      ",", "<", "O", "P", "E", "N", ">", ",", "<", "H", "I", "G", "H",
      ">", ",", "<", "L", "O", "W", ">", ",", "<", "C", "L", "O", "S",
      "E", ">", ",", "<", "V", "O", "L", ">">>

\* fmt.Sprintf("%s,%s,%g,%g,%g,%g,%d\n", ...) of one OHLCV
FormatLine(ohlc) ==
    FormatYMD(ohlc.Date) \o <<",">> \o FormatHMS(ohlc.Date) \o <<",">>
    \o FormatG(ohlc.Open) \o <<",">> \o FormatG(ohlc.High) \o <<",">>
    \o FormatG(ohlc.Low) \o <<",">> \o FormatG(ohlc.Close) \o <<",">>
    \o FormatInt(ohlc.Volume)

FormatLines(data) == [i \in 1..Len(data) |-> FormatLine(data[i])]

\* a file is absent, or holds a sequence of lines
Absent == [exists |-> FALSE, lines |-> <<>>]
File(lines) == [exists |-> TRUE, lines |-> lines]

\* the names of the instruments of the runs, in the order of the input list
Names == <<"SBER", "GAZP", "LKOH", "GMKN", "ROSN", "VTBR", "NVTK">>

\* the codes of the quarterly expiries
codes == <<"H", "M", "U", "Z">>

----------------------------------------------------------------------------
(* Periods *)

\* the first Friday on or after the 14th
thirdFridayFrom14(year, month) ==
    LET third           == DateDay(year, month, 14)
        weekday         == Weekday(third)
        daysUntilFriday == (5 - weekday + 7) % 7
    IN  third + daysUntilFriday

\* thirdFriday(year, month), as a day number
thirdFriday(year, month) ==
    LET third           == DateDay(year, month, 15)
        weekday         == Weekday(third)
        daysUntilFriday == (5 - weekday + 7) % 7
    IN  third + daysUntilFriday

\* ProcessStocks: startDate and endDate of month `month` of `year`
StockPeriod(year, month) ==
    [from |-> DateDay(year, month, 1), till |-> DateDay(year, month + 1, 0)]

\* quarters that end on the third Friday itself
ContractPeriodToFriday(y, i) ==
    LET m      == i * 3 + 3
        yBegin == IF m - 3 = 0 THEN y - 1 ELSE y
        mBegin == IF m - 3 = 0 THEN 12 ELSE m - 3
    IN  [from |-> thirdFriday(yBegin, mBegin) - 1, till |-> thirdFriday(y, m)]

\* ProcessContracts: beginDate and endDate of quarter i (0..3) of year y
ContractPeriod(y, i) ==
    LET m      == i * 3 + 3
        yBegin == IF m - 3 = 0 THEN y - 1 ELSE y
        mBegin == IF m - 3 = 0 THEN 12 ELSE m - 3
    IN  [from |-> thirdFriday(yBegin, mBegin) - 1, till |-> thirdFriday(y, m) - 2]

\* fmt.Sprintf("%s%s%d", contract, code, y%10)
ContractTicker(contract, i, y) == <<contract, codes[i + 1], y % 10>>

\* startDate.After(time.Now()), the clock read in days
After(day, clock) == day > clock

\* what an output file may hold before a run: nothing, or the header and the
\* line an earlier equity run wrote for the first candle of January
OldLine ==
    FormatLine(DecodeRow(GoodRow(StockPeriod(BaseYear, 1).from, 1), CanonicalColumns))

PriorFiles == {Absent, File(<<Header, OldLine>>)}

----------------------------------------------------------------------------
(* Errors *)

Nil == [msg |-> "nil", cause |-> NoErr]
Err(msg, cause) == [msg |-> msg, cause |-> cause]

Stocks    == "ProcessStocks"
Contracts == "ProcessContracts"

----------------------------------------------------------------------------
VARIABLES
    prog,        \* the driver that runs: Stocks or Contracts
    impl,        \* the paginated fetch it calls
    remote,      \* the kind of remote source: Plain or Paged
    instruments, \* the input list
    yearStart,   \* first year
    yearEnd,     \* last year (Stocks: inclusive, Contracts: exclusive)
    now,         \* the clock as last read, in days
    ticks,       \* days the clock advanced so far
    fs,          \* the output files, by instrument name
    fs0,         \* the output files before the run
    mainpc,      \* the driver: "setup", "dispatch", "returned"
    idx,         \* the driver's position in the input list
    ret,         \* what the driver returned
    sem,         \* errgroup: tokens in the semaphore channel
    wg,          \* errgroup: the wait group's counter
    gerr,        \* errgroup: the first error (errOnce)
    cancelled,   \* errgroup: the derived context was cancelled
    wgrp,        \* errgroup: per goroutine, where its wrapper is
    failedFirst, \* the error of the worker whose function returned one first
    wpc,         \* per worker: where it is
    wpos,        \* per worker: the loop variables [y, i]
    wreq,        \* per worker: the period and ticker of its current Fetch
    wsrc,        \* per worker: the source answering its current Fetch
    wf,          \* per worker: the state of the loop of its current Fetch
    wout,        \* per worker: the records of `data` written so far
    werr         \* per worker: what it returned

cfgvars  == <<prog, impl, remote, instruments, yearStart, yearEnd, fs0>>
mainvars == <<mainpc, idx, ret>>
grpvars  == <<sem, wg, gerr, cancelled, wgrp, failedFirst>>
wvars    == <<wpc, wpos, wreq, wsrc, wf, wout, werr>>
clock    == <<now, ticks>>

vars == <<prog, impl, remote, instruments, yearStart, yearEnd, now, ticks, fs, fs0,
          mainpc, idx, ret, sem, wg, gerr, cancelled, wgrp, failedFirst,
          wpc, wpos, wreq, wsrc, wf, wout, werr>>

Workers == 1..Len(instruments)

NoReq == [ticker |-> <<>>, from |-> 0, till |-> 0]

Running(w) == wpc[w] \notin {"idle", "done", "failed"}

\* the implementations a driver exists with: the current one calls
\* Fetcher.Fetch, the older copy its own getOHLC
ImplsOf(p) ==
    IF p = Stocks THEN {FetcherFetch, GetOHLCShares} ELSE {FetcherFetch, GetOHLCForts}

\* the state after construction, for a given input; the clock reads clk and
\* has advanced by tk of the days it may advance
InitWith(p, im, rem, n, ys, ye, clk, tk, prior, rest) ==
    /\ prog = p
    /\ impl = im
    /\ remote = rem
    /\ instruments = SubSeq(Names, 1, n)
    /\ yearStart = ys
    /\ yearEnd = ye
    /\ now = clk
    /\ ticks = tk
    /\ fs = [nm \in {Names[k] : k \in 1..Len(Names)} |->
                IF nm = Names[1] THEN prior ELSE rest]
    /\ fs0 = fs
    /\ mainpc = "setup"
    /\ idx = 1
    /\ ret = Nil
    /\ sem = 0
    /\ wg = 0
    /\ gerr = Nil
    /\ cancelled = FALSE
    /\ wgrp = [w \in 1..n |-> "run"]
    /\ failedFirst = Nil
    /\ wpc = [w \in 1..n |-> "idle"]
    /\ wpos = [w \in 1..n |-> [y |-> ys, i |-> 0]]
    /\ wreq = [w \in 1..n |-> NoReq]
    /\ wsrc = [w \in 1..n |-> <<>>]
    /\ wf = [w \in 1..n |-> FetchStart]
    /\ wout = [w \in 1..n |-> 0]
    /\ werr = [w \in 1..n |-> Nil]

\* the clock a run starts at: the last day of January of the base year
StartClock == DateDay(BaseYear, 2, 0)

\* the last year of a range of `years` years from the base year
LastYear(p, years) == IF p = Stocks THEN BaseYear + years - 1 ELSE BaseYear + years

\* the days the clock has advanced when a run on n instruments with periods
\* to process starts: a run on more than a pair ends on the day it started
SameDay(n) == IF n > 2 THEN MaxTicks ELSE 0

\* Runs against the plain remote: ProcessStocks on any list of instruments
\* that were all downloaded before, with an empty year range; both drivers
\* on the lists and year ranges within the bound on the work, a list of
\* several instruments with the file of its first instrument in place and
\* one of more than a pair for ProcessStocks only; and the older copy of
\* each driver on one instrument and one year.
Init ==
    \/ \E n \in 0..MaxInstr :
          InitWith(Stocks, FetcherFetch, Plain, n, BaseYear, LastYear(Stocks, 0),
                   StartClock, 0, File(<<Header, OldLine>>), File(<<Header, OldLine>>))
    \/ \E p \in {Stocks, Contracts} :
        \/ \E n \in 1..MaxWork : \E years \in 1..MaxWork : \E prior \in PriorFiles :
              /\ n * years <= MaxWork
              /\ n > 1 => prior # Absent
              /\ n > 2 => p = Stocks
              /\ InitWith(p, FetcherFetch, Plain, n, BaseYear, LastYear(p, years),
                          StartClock, SameDay(n), prior, Absent)
        \/ \E im \in ImplsOf(p) \ {FetcherFetch} :
              InitWith(p, im, Plain, 1, BaseYear, LastYear(p, 1), StartClock, 0,
                       Absent, Absent)

----------------------------------------------------------------------------
(* The driver and the errgroup *)

\* ensureDir(baseDir) (ProcessStocks) or os.Getwd() (ProcessContracts), which
\* may fail, then errgroup.WithContext and SetLimit
Setup ==
    /\ mainpc = "setup"
    /\ \E ok \in BOOLEAN :
        IF ok THEN /\ mainpc' = "dispatch"
                   /\ ret' = ret
        ELSE /\ mainpc' = "returned"
             /\ ret' = Err(IF prog = Stocks THEN "failed to create base directory"
                           ELSE "failed to get current directory", "os")
    /\ UNCHANGED <<cfgvars, clock, fs, idx, grpvars, wvars>>

\* a group without SetLimit: Go never blocks
MayStartUnlimited == TRUE

\* a group that starts no goroutine once one has returned an error
MayStartUnlessFailed == sem < Limit /\ gerr = Nil

\* gr.Go may start a goroutine: there is a free token in the semaphore
MayStart == sem < Limit

\* a derivative worker that goes straight to its periods, as the equity
\* worker does on an existing file
FirstPcNoReset == IF prog = Stocks THEN "open" ELSE "loop"

\* the first step of a worker
FirstPc == IF prog = Stocks THEN "open" ELSE "remove"

\* for _, x := range list { gr.Go(func() error {...}) }: Go blocks until the
\* semaphore has room, then starts the goroutine of the next instrument
Go ==
    /\ mainpc = "dispatch"
    /\ idx <= Len(instruments)
    /\ MayStart
    /\ sem' = sem + 1
    /\ wg' = wg + 1
    /\ wpc' = [wpc EXCEPT ![idx] = FirstPc]
    /\ idx' = idx + 1
    /\ UNCHANGED <<cfgvars, clock, fs, mainpc, ret, gerr, cancelled, wgrp,
                   failedFirst, wpos, wreq, wsrc, wf, wout, werr>>

\* a Wait that also returns as soon as an error is known
MayReturnOnError == wg = 0 \/ gerr # Nil

\* gr.Wait may return: the wait group's counter is zero
MayReturn == wg = 0

\* return gr.Wait(): after the loop over the input list
Wait ==
    /\ mainpc = "dispatch"
    /\ idx > Len(instruments)
    /\ MayReturn
    /\ mainpc' = "returned"
    /\ ret' = gerr
    /\ cancelled' = TRUE
    /\ UNCHANGED <<cfgvars, clock, fs, idx, sem, wg, gerr, wgrp, failedFirst, wvars>>

\* a group that keeps the error of the goroutine that failed last
LastError(g, e) == IF e # Nil THEN e ELSE g

\* g.errOnce.Do(func() { g.err = err; ... }): the group's error after a
\* goroutine returned e, only the first error is kept
FirstError(g, e) == IF e # Nil /\ g = Nil THEN e ELSE g

\* the function of worker w returns e: its locals are gone, and the wrapper
\* that errgroup runs it in has the value in hand; the group knows nothing
\* of it yet
Finish(w, e) ==
    /\ wpc' = [wpc EXCEPT ![w] = IF e = Nil THEN "done" ELSE "failed"]
    /\ werr' = [werr EXCEPT ![w] = e]
    /\ wreq' = [wreq EXCEPT ![w] = NoReq]
    /\ wsrc' = [wsrc EXCEPT ![w] = <<>>]
    /\ wf' = [wf EXCEPT ![w] = FetchStart]
    /\ wout' = [wout EXCEPT ![w] = 0]
    /\ wgrp' = [wgrp EXCEPT ![w] = "returned"]
    /\ failedFirst' = IF e # Nil /\ failedFirst = Nil THEN e ELSE failedFirst
    /\ UNCHANGED <<sem, wg, gerr, cancelled>>

\* if err := f(); err != nil { g.errOnce.Do(...) }: the wrapper of worker w
\* hands the error its function returned to the group, which keeps it and
\* cancels the derived context if it is the first to arrive
GroupErrOnce(w) ==
    /\ wgrp[w] = "returned"
    /\ werr[w] # Nil
    /\ gerr' = FirstError(gerr, werr[w])
    /\ cancelled' = (cancelled \/ gerr = Nil)
    /\ wgrp' = [wgrp EXCEPT ![w] = "recorded"]
    /\ UNCHANGED <<cfgvars, clock, fs, mainvars, sem, wg, failedFirst, wvars>>

\* g.done(), first half: <-g.sem gives the token back
GroupRelease(w) ==
    /\ \/ wgrp[w] = "recorded"
       \/ wgrp[w] = "returned" /\ werr[w] = Nil
    /\ sem' = sem - 1
    /\ wgrp' = [wgrp EXCEPT ![w] = "released"]
    /\ UNCHANGED <<cfgvars, clock, fs, mainvars, wg, gerr, cancelled, failedFirst, wvars>>

\* g.done(), second half: g.wg.Done()
GroupDone(w) ==
    /\ wgrp[w] = "released"
    /\ wg' = wg - 1
    /\ wgrp' = [wgrp EXCEPT ![w] = "gone"]
    /\ UNCHANGED <<cfgvars, clock, fs, mainvars, sem, gerr, cancelled, failedFirst, wvars>>

\* the steps of the wrapper of worker w after its function returned
GroupStep(w) == GroupErrOnce(w) \/ GroupRelease(w) \/ GroupDone(w)

\* a worker may take its next step: nothing in the worker reads the group's
\* context (the drivers drop it, Fetch is given context.Background())
MayStep(w) == Running(w)

\* what time.Now() may return, in days: the clock never runs backwards, and
\* advances by a bounded number of days during a run
ClockReadings == now..(now + (MaxTicks - ticks))

\* time.Now() returned t
ReadClock(t) ==
    /\ now' = t
    /\ ticks' = ticks + (t - now)

----------------------------------------------------------------------------
(* Fetch, as a worker runs it *)

\* goroutines that share one loop variable: each sees the last instrument
NameShared(w) == instruments[Len(instruments)]

\* the instrument the goroutine of worker w captured: the loop variable of
\* its own iteration
Name(w) == instruments[w]

\* the call of Fetch for a period: the first request is about to be issued
BeginFetch(w, ticker, period) ==
    /\ wreq' = [wreq EXCEPT ![w] = [ticker |-> ticker, from |-> period.from,
                                    till |-> period.till]]
    /\ wsrc' = [wsrc EXCEPT ![w] = <<>>]
    /\ wf' = [wf EXCEPT ![w] = FetchStart]
    /\ wout' = wout
    /\ wpc' = [wpc EXCEPT ![w] = "fetching"]

\* a Fetch that is handed the group's context and issues its requests with
\* it: once the context is cancelled the client returns an error
GetWithGroupContext(src, k) == IF cancelled THEN Answer(NetErr) ELSE Respond(src, k)

\* resp, err := http.Get(url), the k-th of a call: the request carries no
\* context (Fetch is handed context.Background() and leaves it unused), so
\* the response is what the source answers
Get(src, k) == Respond(src, k)

\* one round of the loop of Fetch: request, response, decode.  The first
\* request of a call finds the source that answers the call.
FetchRequest(w) ==
    /\ MayStep(w)
    /\ wpc[w] = "fetching"
    /\ ~wf[w].done
    /\ Len(wf[w].reqs) < MaxRequests
    /\ \E src \in IF wf[w].reqs = <<>> THEN SourcesFor(remote, wreq[w].from)
                  ELSE {wsrc[w]} :
        /\ wsrc' = [wsrc EXCEPT ![w] = src]
        /\ wf' = [wf EXCEPT ![w] = FetchPage(impl, @, Get(src, Len(wf[w].reqs) + 1))]
    /\ UNCHANGED <<cfgvars, clock, fs, mainvars, grpvars, wpc, wpos, wreq, wout, werr>>

\* Fetch returned its records to the worker: `data` is all that is left of
\* the call
Returned(w) ==
    /\ wf' = [wf EXCEPT ![w] = [FetchStart EXCEPT !.result = wf[w].result, !.done = TRUE]]
    /\ wsrc' = [wsrc EXCEPT ![w] = <<>>]
    /\ wout' = [wout EXCEPT ![w] = 0]
    /\ wreq' = wreq

\* a worker that calls Fetch again for the period whose Fetch failed
FetchRetried(w) ==
    /\ wpc' = [wpc EXCEPT ![w] = "fetching"]
    /\ wf' = [wf EXCEPT ![w] = FetchStart]
    /\ wsrc' = [wsrc EXCEPT ![w] = <<>>]
    /\ UNCHANGED <<grpvars, werr, wreq, wout>>

\* if err != nil { return fmt.Errorf("failed to get OHLC data for ...: %w", err) }
FetchFailed(w) == Finish(w, Err("failed to get OHLC data", wf[w].err))

----------------------------------------------------------------------------
(* The worker of ProcessStocks *)

\* the loop variables after month i (1..12) of year y
NextMonth(pos) ==
    IF pos.i = 12 THEN [y |-> pos.y + 1, i |-> 1] ELSE [y |-> pos.y, i |-> pos.i + 1]

\* createOrAppendFile(fileName, true) on a file that does not exist:
\* os.Create(fileName)
StockCreate(w) ==
    /\ MayStep(w)
    /\ prog = Stocks /\ wpc[w] = "open"
    /\ ~fs[Name(w)].exists
    /\ \E ok \in BOOLEAN :
        IF ok
        THEN /\ fs' = [fs EXCEPT ![Name(w)] = File(<<>>)]
             /\ wpc' = [wpc EXCEPT ![w] = "header"]
             /\ UNCHANGED <<grpvars, werr, wreq, wsrc, wf, wout>>
        ELSE /\ Finish(w, Err("failed to create/open file", "create fails"))
             /\ fs' = fs
    /\ UNCHANGED <<cfgvars, clock, mainvars, wpos>>

\* createOrAppendFile(fileName, true) after os.Create:
\* file.WriteString(header); a failure closes the file and ends the worker
StockHeader(w) ==
    /\ MayStep(w)
    /\ prog = Stocks /\ wpc[w] = "header"
    /\ \E ok \in BOOLEAN :
        IF ok
        THEN /\ fs' = [fs EXCEPT ![Name(w)].lines = @ \o <<Header>>]
             /\ wpc' = [wpc EXCEPT ![w] = "loop"]
             /\ wpos' = [wpos EXCEPT ![w] = [y |-> yearStart, i |-> 1]]
             /\ UNCHANGED <<grpvars, werr, wreq, wsrc, wf, wout>>
        ELSE /\ Finish(w, Err("failed to create/open file", "header fails"))
             /\ UNCHANGED <<fs, wpos>>
    /\ UNCHANGED <<cfgvars, clock, mainvars>>

\* an open that truncates the file and writes the header again
OpenAfresh(file) == File(<<Header>>)

\* os.OpenFile(fileName, os.O_APPEND|os.O_WRONLY, 0644): the content stays
OpenForAppend(file) == file

\* createOrAppendFile(fileName, true) on a file that exists: open it for
\* appending
StockOpen(w) ==
    /\ MayStep(w)
    /\ prog = Stocks /\ wpc[w] = "open"
    /\ fs[Name(w)].exists
    /\ \E ok \in BOOLEAN :
        IF ok
        THEN /\ fs' = [fs EXCEPT ![Name(w)] = OpenForAppend(@)]
             /\ wpc' = [wpc EXCEPT ![w] = "loop"]
             /\ wpos' = [wpos EXCEPT ![w] = [y |-> yearStart, i |-> 1]]
             /\ UNCHANGED <<grpvars, werr, wreq, wsrc, wf, wout>>
        ELSE /\ Finish(w, Err("failed to create/open file", "open fails"))
             /\ UNCHANGED <<fs, wpos>>
    /\ UNCHANGED <<cfgvars, clock, mainvars>>

\* the loops over year and month are exhausted: return nil
StockReturn(w) ==
    /\ MayStep(w)
    /\ prog = Stocks /\ wpc[w] = "loop"
    /\ wpos[w].y > yearEnd
    /\ Finish(w, Nil)
    /\ UNCHANGED <<cfgvars, clock, fs, mainvars, wpos>>

\* the month is fetched: it does not start after time.Now()
StockFetches(y, m, t) == ~After(StockPeriod(y, m).from, t)

\* a month that starts after time.Now(): continue
StockSkip(w) ==
    /\ MayStep(w)
    /\ prog = Stocks /\ wpc[w] = "loop"
    /\ wpos[w].y <= yearEnd
    /\ \E t \in ClockReadings :
        /\ ~StockFetches(wpos[w].y, wpos[w].i, t)
        /\ ReadClock(t)
    /\ wpos' = [wpos EXCEPT ![w] = NextMonth(@)]
    /\ UNCHANGED <<cfgvars, fs, mainvars, grpvars, wpc, wreq, wsrc, wf, wout, werr>>

\* any other month: call Fetch for it
StockFetch(w) ==
    /\ MayStep(w)
    /\ prog = Stocks /\ wpc[w] = "loop"
    /\ wpos[w].y <= yearEnd
    /\ \E t \in ClockReadings :
        /\ StockFetches(wpos[w].y, wpos[w].i, t)
        /\ ReadClock(t)
    /\ BeginFetch(w, <<Name(w)>>, StockPeriod(wpos[w].y, wpos[w].i))
    /\ UNCHANGED <<cfgvars, fs, mainvars, grpvars, wpos, werr>>

\* Fetch returned: an error ends the worker, records are written, no records
\* are reported
StockFetched(w) ==
    /\ MayStep(w)
    /\ prog = Stocks /\ wpc[w] = "fetching"
    /\ wf[w].done
    /\ IF wf[w].err # NoErr
       THEN FetchFailed(w)
       ELSE /\ wpc' = [wpc EXCEPT ![w] =
                         IF Len(wf[w].result) > 0 THEN "writing" ELSE "sleeping"]
            /\ Returned(w)
            /\ UNCHANGED <<grpvars, werr>>
    /\ UNCHANGED <<cfgvars, clock, fs, mainvars, wpos>>

\* the next record of the data is its last
LastRecord(w) == wout[w] + 1 = Len(wf[w].result)

\* file.WriteString(line) of the next record of the data
WriteRecord(w) ==
    fs' = [fs EXCEPT ![Name(w)].lines =
             @ \o <<FormatLine(wf[w].result[wout[w] + 1])>>]

\* writeDataToFile(file, data), one round of its loop: the WriteString of one
\* record; the first failure ends the worker, the last record ends the call
StockWrite(w) ==
    /\ MayStep(w)
    /\ prog = Stocks /\ wpc[w] = "writing"
    /\ wout[w] < Len(wf[w].result)
    /\ \/ /\ WriteRecord(w)
          /\ IF LastRecord(w)
             THEN /\ wpc' = [wpc EXCEPT ![w] = "sleeping"]
                  /\ wf' = [wf EXCEPT ![w] = FetchStart]
                  /\ wout' = [wout EXCEPT ![w] = 0]
             ELSE /\ wout' = [wout EXCEPT ![w] = @ + 1]
                  /\ UNCHANGED <<wpc, wf>>
          /\ UNCHANGED <<grpvars, werr, wreq, wsrc>>
       \/ /\ wout[w] <= MaxFailAt
          /\ Finish(w, Err("failed to write data to file", "failed to write to file"))
          /\ fs' = fs
    /\ UNCHANGED <<cfgvars, clock, mainvars, wpos>>

\* time.Sleep(100 * time.Millisecond), then the next month
StockSleep(w) ==
    /\ MayStep(w)
    /\ prog = Stocks /\ wpc[w] = "sleeping"
    /\ wpc' = [wpc EXCEPT ![w] = "loop"]
    /\ wpos' = [wpos EXCEPT ![w] = NextMonth(@)]
    /\ UNCHANGED <<cfgvars, clock, fs, mainvars, grpvars, wreq, wsrc, wf, wout, werr>>

----------------------------------------------------------------------------
(* The worker of ProcessContracts *)

\* a loop that visits the quarters of a year as H, U, M, Z
NextQuarterShuffled(pos) ==
    CASE pos.i = 0 -> [y |-> pos.y, i |-> 2]
      [] pos.i = 2 -> [y |-> pos.y, i |-> 1]
      [] pos.i = 1 -> [y |-> pos.y, i |-> 3]
      [] OTHER     -> [y |-> pos.y + 1, i |-> 0]

\* the loop variables after quarter i (0..3) of year y
NextQuarter(pos) ==
    IF pos.i = 3 THEN [y |-> pos.y + 1, i |-> 0] ELSE [y |-> pos.y, i |-> pos.i + 1]

\* os.Remove(fileName): a missing file is no error
ContractRemove(w) ==
    /\ MayStep(w)
    /\ prog = Contracts /\ wpc[w] = "remove"
    /\ \E ok \in BOOLEAN :
        IF ok
        THEN /\ fs' = [fs EXCEPT ![Name(w)] = Absent]
             /\ wpc' = [wpc EXCEPT ![w] = "create"]
             /\ UNCHANGED <<grpvars, werr, wreq, wsrc, wf, wout>>
        ELSE /\ Finish(w, Err("failed to remove existing file", "os"))
             /\ fs' = fs
    /\ UNCHANGED <<cfgvars, clock, mainvars, wpos>>

\* os.Create(fileName)
ContractCreate(w) ==
    /\ MayStep(w)
    /\ prog = Contracts /\ wpc[w] = "create"
    /\ \E ok \in BOOLEAN :
        IF ok
        THEN /\ fs' = [fs EXCEPT ![Name(w)] = File(<<>>)]
             /\ wpc' = [wpc EXCEPT ![w] = "header"]
             /\ UNCHANGED <<grpvars, werr, wreq, wsrc, wf, wout>>
        ELSE /\ Finish(w, Err("failed to create file", "os"))
             /\ fs' = fs
    /\ UNCHANGED <<cfgvars, clock, mainvars, wpos>>

\* file.WriteString(header); file.Close()
ContractHeader(w) ==
    /\ MayStep(w)
    /\ prog = Contracts /\ wpc[w] = "header"
    /\ \E ok \in BOOLEAN :
        IF ok
        THEN /\ fs' = [fs EXCEPT ![Name(w)].lines = @ \o <<Header>>]
             /\ wpc' = [wpc EXCEPT ![w] = "loop"]
             /\ wpos' = [wpos EXCEPT ![w] = [y |-> yearStart, i |-> 0]]
             /\ UNCHANGED <<grpvars, werr, wreq, wsrc, wf, wout>>
        ELSE /\ Finish(w, Err("failed to write header", "os"))
             /\ UNCHANGED <<fs, wpos>>
    /\ UNCHANGED <<cfgvars, clock, mainvars>>

\* the loop over the years is exhausted: return nil
ContractReturn(w) ==
    /\ MayStep(w)
    /\ prog = Contracts /\ wpc[w] = "loop"
    /\ ~(wpos[w].y < yearEnd)
    /\ Finish(w, Nil)
    /\ UNCHANGED <<cfgvars, clock, fs, mainvars, wpos>>

\* the quarter is fetched: always, the clock is not read
ContractFetches(y, i) == TRUE

\* every quarter of every year: call Fetch for it
ContractFetch(w) ==
    /\ MayStep(w)
    /\ prog = Contracts /\ wpc[w] = "loop"
    /\ wpos[w].y < yearEnd
    /\ ContractFetches(wpos[w].y, wpos[w].i)
    /\ BeginFetch(w, ContractTicker(Name(w), wpos[w].i, wpos[w].y),
                  ContractPeriod(wpos[w].y, wpos[w].i))
    /\ UNCHANGED <<cfgvars, clock, fs, mainvars, grpvars, wpos, werr>>

\* Fetch returned: an error ends the worker, else the records are appended
ContractFetched(w) ==
    /\ MayStep(w)
    /\ prog = Contracts /\ wpc[w] = "fetching"
    /\ wf[w].done
    /\ IF wf[w].err # NoErr
       THEN FetchFailed(w)
       ELSE /\ wpc' = [wpc EXCEPT ![w] = "append"]
            /\ Returned(w)
            /\ UNCHANGED <<grpvars, werr>>
    /\ UNCHANGED <<cfgvars, clock, fs, mainvars, wpos>>

\* the file createOrAppendFile(fileName) hands out: a new, empty file when
\* none exists, else the file as it is, opened for appending
Reopened(file) == IF file.exists THEN file ELSE File(<<>>)

\* createOrAppendFile(fileName): the file is opened for the records of the
\* quarter
ContractAppend(w) ==
    /\ MayStep(w)
    /\ prog = Contracts /\ wpc[w] = "append"
    /\ \E ok \in BOOLEAN :
        IF ok
        THEN /\ fs' = [fs EXCEPT ![Name(w)] = Reopened(@)]
             /\ wpc' = [wpc EXCEPT ![w] = "write"]
             /\ UNCHANGED <<grpvars, werr, wreq, wsrc, wf, wout>>
        ELSE /\ Finish(w, Err("failed to open file for appending", "os"))
             /\ fs' = fs
    /\ UNCHANGED <<cfgvars, clock, mainvars, wpos>>

\* one round of the loop over the records: the WriteString of one record;
\* a failure closes the file and ends the worker
ContractWrite(w) ==
    /\ MayStep(w)
    /\ prog = Contracts /\ wpc[w] = "write"
    /\ wout[w] < Len(wf[w].result)
    /\ \/ /\ WriteRecord(w)
          /\ wout' = [wout EXCEPT ![w] = @ + 1]
          /\ UNCHANGED <<grpvars, wpc, werr, wreq, wsrc, wf>>
       \/ /\ wout[w] <= MaxFailAt
          /\ Finish(w, Err("failed to write to file", "os"))
          /\ fs' = fs
    /\ UNCHANGED <<cfgvars, clock, mainvars, wpos>>

\* file.Close() after the last record, then the next quarter
ContractClose(w) ==
    /\ MayStep(w)
    /\ prog = Contracts /\ wpc[w] = "write"
    /\ wout[w] = Len(wf[w].result)
    /\ wpc' = [wpc EXCEPT ![w] = "loop"]
    /\ wpos' = [wpos EXCEPT ![w] = NextQuarter(@)]
    /\ wf' = [wf EXCEPT ![w] = FetchStart]
    /\ wout' = [wout EXCEPT ![w] = 0]
    /\ UNCHANGED <<cfgvars, clock, fs, mainvars, grpvars, werr, wreq, wsrc>>

----------------------------------------------------------------------------
(* Specifications *)

StockStep(w) ==
    \/ StockCreate(w)
    \/ StockHeader(w)
    \/ StockOpen(w)
    \/ StockReturn(w)
    \/ StockSkip(w)
    \/ StockFetch(w)
    \/ StockFetched(w)
    \/ StockWrite(w)
    \/ StockSleep(w)

ContractStep(w) ==
    \/ ContractRemove(w)
    \/ ContractCreate(w)
    \/ ContractHeader(w)
    \/ ContractReturn(w)
    \/ ContractFetch(w)
    \/ ContractFetched(w)
    \/ ContractAppend(w)
    \/ ContractWrite(w)
    \/ ContractClose(w)

Next ==
    \/ Setup
    \/ Go
    \/ Wait
    \/ \E w \in Workers : FetchRequest(w)
    \/ \E w \in Workers : StockStep(w)
    \/ \E w \in Workers : ContractStep(w)
    \/ \E w \in Workers : GroupStep(w)

\* ProcessStocks and ProcessContracts against the plain remote
Spec == Init /\ [][Next]_vars

\* The runs in which the workers have periods to process: the lists and
\* year ranges within the bound on the work, with and without the file of
\* the first instrument in place (a list of more than a pair for
\* ProcessStocks with the file in place only), and the older copy of each
\* driver
InitWork ==
    \E p \in {Stocks, Contracts} :
        \/ \E n \in 1..MaxWork : \E years \in 1..MaxWork : \E prior \in PriorFiles :
              /\ n * years <= MaxWork
              /\ n > 2 => p = Stocks /\ prior # Absent
              /\ InitWith(p, FetcherFetch, Plain, n, BaseYear, LastYear(p, years),
                          StartClock, SameDay(n), prior, Absent)
        \/ \E im \in ImplsOf(p) \ {FetcherFetch} :
              InitWith(p, im, Plain, 1, BaseYear, LastYear(p, 1), StartClock, 0, Absent, Absent)

SpecWork == InitWork /\ [][Next]_vars

\* the clock of a run that finds only January begun
MidJanuary == DateDay(BaseYear, 1, 15)

\* One stock, the first month of the year, against the paged remote, in a
\* run that ends on the day it started: every reading of the clock is that
\* day
InitFetch ==
    \E im \in ImplsOf(Stocks) : \E prior \in PriorFiles :
        InitWith(Stocks, im, Paged, 1, BaseYear, BaseYear, MidJanuary, MaxTicks, prior, Absent)

NextFetch ==
    \/ Setup
    \/ Go
    \/ Wait
    \/ \E w \in Workers : FetchRequest(w)
    \/ \E w \in Workers : StockStep(w)
    \/ \E w \in Workers : GroupStep(w)

SpecFetch == InitFetch /\ [][NextFetch]_vars

\* the years a one-year derivative run starts in
RollYears == (BaseYear - MaxRollYears)..BaseYear

\* One derivative instrument over one year, for each of the years
InitRoll ==
    \E y \in RollYears :
        InitWith(Contracts, FetcherFetch, Plain, 1, y, y + 1, StartClock, 0, Absent, Absent)

NextRoll ==
    \/ Setup
    \/ Go
    \/ Wait
    \/ \E w \in Workers : FetchRequest(w)
    \/ \E w \in Workers : ContractStep(w)
    \/ \E w \in Workers : GroupStep(w)

SpecRoll == InitRoll /\ [][NextRoll]_vars

----------------------------------------------------------------------------
(* Pagination *)

\* the candle GoodRow(day, r) is the text of
Candle(day, r) ==
    LET k == (day + r) % 7
        c == CivilFromDays(day + r \div 840)
        t == r % 840
    IN  [Date   |-> [y |-> c.y, m |-> c.m, d |-> c.d,
                     hh |-> 10 + t \div 60, mm |-> t % 60, ss |-> 0, ns |-> 0],
         Open   |-> [neg |-> FALSE, m |-> (100 + k) * 10 + 5, p |-> -1],
         High   |-> [neg |-> FALSE, m |-> 103 + k, p |-> 0],
         Low    |-> [neg |-> FALSE, m |-> (99 + k) * 100 + 25, p |-> -2],
         Close  |-> [neg |-> FALSE, m |-> 101 + k, p |-> 0],
         Volume |-> 10 + r]

\* the description of the response to the k-th request of worker w
Served(w, k) == wsrc[w][IF k < Len(wsrc[w]) THEN k ELSE Len(wsrc[w])]

\* the responses worker w has read in its current Fetch
ServedSoFar(w) == {Served(w, k) : k \in 1..Len(wf[w].reqs)}

\* the source of worker w serves well-formed pages only
PagesOnly(w) ==
    \A k \in 1..Len(wsrc[w]) :
        /\ wsrc[w][k].shape = "good"
        /\ ~wsrc[w][k].neterr
        /\ wsrc[w][k].status = 200

RECURSIVE RowsUpTo(_, _)
\* the total number of rows of the pages 1..k worker w was served
RowsUpTo(w, k) == IF k = 0 THEN 0 ELSE Served(w, k).n + RowsUpTo(w, k - 1)

\* C2: against a source of well-formed pages, Fetch requests offset 0 first;
\* it issues request k+1 exactly when page k held at least 500 rows, at the
\* offset that is the number of rows of pages 1..k; and it returns, without
\* error, the candles of all the pages in the order of the requests.
Pagination ==
    \A w \in Workers :
        (wpc[w] = "fetching" /\ wf[w].reqs # <<>> /\ PagesOnly(w)) =>
            LET q == wf[w].reqs
                n == Len(wf[w].reqs)
            IN  /\ q[1] = 0
                /\ \A k \in 1..(n - 1) :
                      Served(w, k).n >= 500 /\ q[k + 1] = RowsUpTo(w, k)
                /\ wf[w].done <=> Served(w, n).n < 500
                /\ wf[w].done =>
                      /\ wf[w].err = NoErr
                      /\ Len(wf[w].result) = RowsUpTo(w, n)
                      /\ \A i \in 1..RowsUpTo(w, n) :
                            wf[w].result[i] = Candle(wreq[w].from, i)

\* Fetch has returned 510 records from a page of 500 rows and one of 10, in
\* two requests
TwoPagesFetched ==
    \E w \in Workers :
        /\ wpc[w] = "fetching" /\ wf[w].done
        /\ wf[w].reqs = <<0, 500>>
        /\ Served(w, 1).n = 500 /\ Served(w, 2).n = 10
        /\ Len(wf[w].result) = 510

----------------------------------------------------------------------------
(* Failures of a Fetch *)

\* the positions of the columns Fetch decodes, in the canonical column row
DecodedColumns ==
    {c \in 1..Len(CanonicalColumns) :
        \E f \in 1..Len(FieldNames) : CanonicalColumns[c] = FieldNames[f]}

\* the errors of a cell that does not convert
FieldErrors == {ErrField(impl)[f] : f \in 1..Len(FieldNames)}

\* worker w was served a page with a cell that does not convert in a column
\* Fetch decodes
BadCellServed(w) ==
    \E d \in ServedSoFar(w) :
        ~d.neterr /\ d.shape = "badcell" /\ d.k <= d.n /\ d.c \in DecodedColumns

\* C3: a cell that does not convert, on any page, makes Fetch return an error
\* and no record, those of the earlier rows and pages included; and the worker
\* that failed so has written nothing of the period to its file.
ConversionFailure ==
    \A w \in Workers :
        /\ (wpc[w] = "fetching" /\ BadCellServed(w)) =>
              /\ wf[w].done
              /\ wf[w].err \in FieldErrors
              /\ wf[w].result = <<>>
        /\ (wpc[w] = "failed" /\ werr[w].cause \in FieldErrors) =>
              fs[Name(w)].lines =
                  IF fs0[Name(w)].exists THEN fs0[Name(w)].lines ELSE <<Header>>

\* Fetch has failed on a bad cell of the second page, after a full first page
BadCellOnSecondPage ==
    \E w \in Workers :
        /\ wpc[w] = "fetching" /\ wf[w].done
        /\ Len(wf[w].reqs) = 2
        /\ Served(w, 2).shape = "badcell"
        /\ wf[w].err \in FieldErrors

\* C4: a response with a status other than 200 makes Fetch fail with a
\* network error and return no record, whatever its body.
StatusFailure ==
    \A w \in Workers :
        (wpc[w] = "fetching" /\ \E d \in ServedSoFar(w) : ~d.neterr /\ d.status # 200) =>
            /\ wf[w].done
            /\ wf[w].err \in NetworkErrors
            /\ wf[w].result = <<>>

\* C5: a page whose column row lacks a column Fetch decodes makes Fetch fail
\* with a parse error and return no record.
MissingColumnFailure ==
    \A w \in Workers :
        (wpc[w] = "fetching" /\ \E d \in ServedSoFar(w) :
                                  ~d.neterr /\ d.shape = "missing" /\ d.c \in DecodedColumns) =>
            /\ wf[w].done
            /\ wf[w].err \notin NetworkErrors \cup {NoErr}
            /\ wf[w].result = <<>>

----------------------------------------------------------------------------
(* Periods that have not begun *)

\* the latest the clock can be during the run
LatestClock == now + (MaxTicks - ticks)

\* C6: no Fetch is issued, by either driver, for a period that starts after
\* the current date.
NoFutureFetch ==
    \A w \in Workers : wpc[w] = "fetching" => ~After(wreq[w].from, LatestClock)

----------------------------------------------------------------------------
(* The output file of an instrument that had one before the run *)

\* the lines of the candles the plain remote holds for a period
PeriodLines(day) ==
    {FormatLine(DecodeRow(GoodRow(day, r), CanonicalColumns)) : r \in 1..PlainRows(day)}

\* the lines of the records an equity run over n years from the base year can
\* fetch, for every n within the bound
StockLines ==
    {[years |-> n,
      lines |-> UNION {PeriodLines(StockPeriod(y, m).from) :
                          y \in BaseYear..(BaseYear + n - 1), m \in 1..12}] : n \in 0..MaxWork}

\* the same for a derivative run
ContractLines ==
    {[years |-> n,
      lines |-> UNION {PeriodLines(ContractPeriod(y, i).from) :
                          y \in BaseYear..(BaseYear + n - 1), i \in 0..3}] : n \in 0..MaxWork}

\* the lines of the records a worker of the run can fetch
RunLines ==
    IF prog = Stocks
    THEN (CHOOSE r \in StockLines : r.years = yearEnd - yearStart + 1).lines
    ELSE (CHOOSE r \in ContractLines : r.years = yearEnd - yearStart).lines

\* the worker is past os.Remove
PastReset(w) ==
    /\ wpc[w] \notin {"idle", "remove"}
    /\ werr[w].msg # "failed to remove existing file"

\* C7: in a run of ProcessContracts on an instrument whose file existed, at
\* every point after the worker's reset the file holds nothing but the header
\* line followed by lines of records of this run: no line of the prior content
\* is in it; and the header is there from the first period on.
ReplacedFile ==
    \A w \in Workers :
        (prog = Contracts /\ fs0[Name(w)].exists /\ PastReset(w)) =>
            LET lines == fs[Name(w)].lines IN
            /\ \A i \in 1..Len(lines) :
                  IF i = 1 THEN lines[i] = Header
                  ELSE lines[i] \in RunLines /\ lines[i] \notin {fs0[Name(w)].lines[j] :
                                                        j \in 1..Len(fs0[Name(w)].lines)}
            /\ wpc[w] \in {"loop", "fetching", "append", "write", "done"} =>
                  Len(lines) >= 1

\* a derivative worker is done with a file that held a data line before the
\* run and now holds the header and records of the run
ReplacedFileWritten ==
    \E w \in Workers :
        /\ prog = Contracts
        /\ fs0[Name(w)] = File(<<Header, OldLine>>)
        /\ wpc[w] = "done"
        /\ Len(fs[Name(w)].lines) >= 3

\* C8: in a run of ProcessStocks on an instrument whose file existed, the
\* file always exists and starts with its prior content, unchanged; what
\* follows it are lines of records of this run, never a header.
AppendedFile ==
    \A w \in Workers :
        (prog = Stocks /\ fs0[Name(w)].exists) =>
            LET lines == fs[Name(w)].lines
                old   == fs0[Name(w)].lines
            IN  /\ fs[Name(w)].exists
                /\ Len(lines) >= Len(old)
                /\ SubSeq(lines, 1, Len(old)) = old
                /\ \A i \in (Len(old) + 1)..Len(lines) :
                      lines[i] \in RunLines /\ lines[i] # Header

\* an equity worker is done with a file that held the first candle of January
\* before the run: the file holds that line twice
AppendedDuplicate ==
    \E w \in Workers :
        /\ prog = Stocks
        /\ fs0[Name(w)] = File(<<Header, OldLine>>)
        /\ wpc[w] = "done"
        /\ fs[Name(w)].lines = <<Header, OldLine, OldLine>>

----------------------------------------------------------------------------
(* The concurrency cap *)

RunningWorkers == {w \in Workers : Running(w)}

----------------------------------------------------------------------------
(* Siblings of a failed worker *)

\* a step of worker v
StepOf(v) == FetchRequest(v) \/ StockStep(v) \/ ContractStep(v)

\* every instrument of the list has run to its completion or its error
AllEnded == \A v \in Workers : wpc[v] \in {"done", "failed"}

\* the Fetch of worker v ended on a transport error
TransportFailed(v) ==
    wpc[v] = "fetching" /\ wf[v].reqs # <<>> /\ wf[v].err = ErrHttpGet(impl)

\* C9: once a worker has failed, every other worker of the run, running or
\* still to be started, goes on through its periods to its own completion
\* or its own error, under every interleaving the scheduler allows; and
\* the cancellation the failure causes reaches no fetch: a request of a
\* worker fails in transport only when its own source failed it, also when
\* the group's context is cancelled.
SiblingsKeepRunning ==
    /\ [](\A v \in Workers :
            TransportFailed(v) => \E d \in ServedSoFar(v) : d.neterr)
    /\ (\E w \in Workers : wpc[w] = "failed") ~> AllEnded

\* a worker has failed on a malformed volume cell, the group has taken its
\* error and cancelled its context, and a sibling is in a fetch of its own
\* that was answered a well-formed page
SiblingFetchesAfterFailure ==
    \E w \in Workers : \E v \in Workers :
        /\ wpc[w] = "failed"
        /\ werr[w].cause \in {"parse volume column", "failed to parse volume"}
        /\ cancelled /\ gerr = werr[w]
        /\ wpc[v] = "fetching"
        /\ wf[v].reqs # <<>>
        /\ wf[v].err = NoErr

----------------------------------------------------------------------------
(* The return of the driver *)

\* C10: when ProcessStocks or ProcessContracts has returned, every worker it
\* dispatched is done or failed: none is still fetching or writing, also
\* when the run returns an error.
ReturnsAfterAllWorkers ==
    mainpc = "returned" => \A w \in Workers : wpc[w] \in {"idle", "done", "failed"}

\* the run has returned the error of a failed worker, and a sibling that was
\* running completed
ReturnedErrorAfterSibling ==
    /\ mainpc = "returned"
    /\ ret # Nil
    /\ \E w \in Workers : \E v \in Workers :
        /\ wpc[w] = "failed" /\ ret = werr[w]
        /\ wpc[v] = "done"

----------------------------------------------------------------------------
(* The error a run returns *)

\* gr.Wait() has returned
Waited == mainpc = "returned" /\ cancelled

\* the wrapper of worker w hands its error to the group in this step
Records(w) == wgrp[w] = "returned" /\ wgrp'[w] = "recorded"

\* C11 as stated: the result is nil exactly when every worker completed
\* without error, and otherwise it is the error of the worker that failed
\* first in time, the first whose function returned an error.
FirstFailureReturned ==
    Waited => /\ (ret = Nil) <=> (\A w \in Workers : wpc[w] = "done" /\ werr[w] = Nil)
              /\ ret # Nil => ret = failedFirst

\* C11: once gr.Wait has returned, the result is nil exactly when every
\* worker completed without error, and otherwise it is the error of a
\* failed worker: the one whose error reached the group first.  An error
\* handed to the group is kept only when the group holds none, a kept error
\* never changes, and Wait returns it.
FirstErrorReturned ==
    /\ [](Waited => /\ ret = gerr
                     /\ (ret = Nil) <=> (\A w \in Workers : wpc[w] = "done" /\ werr[w] = Nil)
                     /\ ret # Nil => \E w \in Workers : wpc[w] = "failed" /\ ret = werr[w])
    /\ [][/\ gerr # Nil => gerr' = gerr
          /\ \A w \in Workers :
                Records(w) => /\ werr[w] # Nil
                              /\ gerr' = IF gerr = Nil THEN werr[w] ELSE gerr]_vars

\* a run returned the error of a worker that failed second: the worker that
\* failed first, with another error, reached the group after it
LaterFailureReturned ==
    /\ Waited
    /\ \E v, w \in Workers :
        /\ wpc[v] = "failed" /\ wpc[w] = "failed"
        /\ werr[v] # werr[w]
        /\ failedFirst = werr[w]
        /\ ret = werr[v]

----------------------------------------------------------------------------
(* The order of the periods of a worker *)

\* the lines worker w's run added to its file: what follows the prior content
\* (equities) or the header
RunPart(w) ==
    LET lines == fs[Name(w)].lines
        skip  == IF prog = Stocks /\ fs0[Name(w)].exists
                 THEN Len(fs0[Name(w)].lines) ELSE 1
    IN  SubSeq(lines, skip + 1, Len(lines))

\* the date and the time of day a line carries, as numbers
LineDate(line) == NatOf(SubSeq(line, 1, 8))
LineTime(line) ==
    NatOf(SubSeq(line, 10, 11) \o SubSeq(line, 13, 14) \o SubSeq(line, 16, 17))

\* a day as the number YYYYMMDD
Ymd(day) == LET c == CivilFromDays(day) IN c.y * 10000 + c.m * 100 + c.d

\* the worker is in the write of the records of a period: writeDataToFile
\* of ProcessStocks, the open and the loop over the records of
\* ProcessContracts
InWrite(w) == wpc[w] \in {"writing", "append", "write"}

\* C12: a worker handles its periods one at a time and in chronological
\* order: the lines the run added to its file are in the order of their
\* time; while it fetches or writes a period, the lines of that period's
\* records written so far are the last lines of the file and are dated in
\* the period, and the last line before them, so each line before them, is
\* dated before the period; a write is under way only with the fetch of its
\* period finished, and no record is written while a fetch is under way.
OnePeriodAtATime ==
    \A w \in Workers :
        LET part    == RunPart(w)
            earlier == Len(part) - wout[w]
        IN
        /\ (prog = Contracts => PastReset(w)) =>
              \A i \in 1..(Len(part) - 1) :
                 \/ LineDate(part[i]) < LineDate(part[i + 1])
                 \/ /\ LineDate(part[i]) = LineDate(part[i + 1])
                    /\ LineTime(part[i]) < LineTime(part[i + 1])
        /\ (wpc[w] = "fetching" \/ InWrite(w)) =>
              /\ wreq[w] # NoReq
              /\ earlier >= 0
              /\ earlier > 0 => LineDate(part[earlier]) < Ymd(wreq[w].from)
              /\ \A i \in (earlier + 1)..Len(part) :
                    /\ Ymd(wreq[w].from) <= LineDate(part[i])
                    /\ LineDate(part[i]) <= Ymd(wreq[w].till)
        /\ InWrite(w) =>
              wf[w].done /\ wf[w].err = NoErr /\ wout[w] <= Len(wf[w].result)
        /\ ~InWrite(w) => wout[w] = 0

\* a worker fetches a period with the lines of two earlier periods in its
\* file
ThirdPeriodFetched ==
    \E w \in Workers :
        /\ wpc[w] = "fetching"
        /\ wf[w].reqs # <<>>
        /\ \E i, j \in 1..Len(RunPart(w)) :
              LineDate(RunPart(w)[i]) < LineDate(RunPart(w)[j])

----------------------------------------------------------------------------
(* The end of a worker at a failure *)

\* C13: a worker whose Fetch returned an error does nothing but return that
\* error, wrapped, leaving its file as it is; and a worker that has returned
\* an error, from a Fetch or from an append, takes no further step: it
\* issues no fetch, writes nothing and does not repeat what failed.
StopsAtFailure ==
    \A w \in Workers :
        /\ wpc[w] = "failed" => werr[w] # Nil /\ ~ENABLED StepOf(w)
        /\ (wpc[w] = "fetching" /\ wf[w].done /\ wf[w].err # NoErr) =>
              /\ ENABLED StepOf(w)
              /\ ~ENABLED (/\ StepOf(w)
                           /\ ~(/\ wpc'[w] = "failed"
                                /\ werr'[w] = Err("failed to get OHLC data", wf[w].err)
                                /\ fs' = fs))

\* a worker has stopped at the failed Fetch of a later period, with the lines
\* of an earlier period in its file
StoppedAtLaterFetch ==
    \E w \in Workers :
        /\ wpc[w] = "failed"
        /\ werr[w].msg = "failed to get OHLC data"
        /\ Len(RunPart(w)) > 0

----------------------------------------------------------------------------
(* The periods a file holds *)

\* the first days of the periods of a run of the longest year range, in the
\* order of the loops
PeriodStarts(p) ==
    IF p = Stocks
    THEN [k \in 1..(12 * MaxWork) |->
            StockPeriod(BaseYear + ((k - 1) \div 12), ((k - 1) % 12) + 1).from]
    ELSE [k \in 1..(4 * MaxWork) |->
            ContractPeriod(BaseYear + ((k - 1) \div 4), (k - 1) % 4).from]

\* the lines of the candles the plain remote holds for a period, in order
PeriodLineSeq(day) ==
    <<>> \o [r \in 1..PlainRows(day) |->
                FormatLine(DecodeRow(GoodRow(day, r), CanonicalColumns))]

RECURSIVE PrefixLines(_, _)
\* the lines of the first k periods, period after period
PrefixLines(starts, k) ==
    IF k = 0 THEN <<>> ELSE PrefixLines(starts, k - 1) \o PeriodLineSeq(starts[k])

\* the same for every k, for the equity and for the derivative run
StockPrefixes ==
    <<>> \o [j \in 1..(12 * MaxWork + 1) |-> PrefixLines(PeriodStarts(Stocks), j - 1)]
ContractPrefixes ==
    <<>> \o [j \in 1..(4 * MaxWork + 1) |-> PrefixLines(PeriodStarts(Contracts), j - 1)]

\* the number of periods worker w is through with
PeriodsDone(w) ==
    IF wpc[w] = "idle" THEN 0
    ELSE IF prog = Stocks
    THEN (wpos[w].y - BaseYear) * 12 + (IF wpos[w].i = 0 THEN 0 ELSE wpos[w].i - 1)
         + (IF wpc[w] = "sleeping" THEN 1 ELSE 0)
    ELSE (wpos[w].y - BaseYear) * 4 + wpos[w].i

\* C14: at every point of a run, also one that stopped on an error, the
\* lines a worker has added to its file are the records of the first k of
\* its periods, for some k up to the number of periods it is through with,
\* each period with all its records, in fetch order.
WholePeriodsOnly ==
    \A w \in Workers :
        (prog = Contracts => PastReset(w)) =>
            \E k \in 0..PeriodsDone(w) :
                RunPart(w) = IF prog = Stocks THEN StockPrefixes[k + 1]
                             ELSE ContractPrefixes[k + 1]

----------------------------------------------------------------------------
(* The header line *)

\* the number of header lines among `lines`
HeaderCount(lines) == Cardinality({i \in 1..Len(lines) : lines[i] = Header})

\* the file of worker w is one the run created: os.Create gave it to the
\* worker, where no file was (equities) or after os.Remove (derivatives)
CreatedByRun(w) ==
    /\ fs[Name(w)].exists
    /\ IF prog = Stocks THEN ~fs0[Name(w)].exists ELSE PastReset(w)

\* the errors of a header that could not be written
HeaderErrors ==
    {Err("failed to create/open file", "header fails"), Err("failed to write header", "os")}

\* C15: in every state, a file the run created holds the header exactly
\* once, as its first line; a file that existed and was not replaced holds
\* as many header lines as before the run.
HeaderExactlyOnce ==
    \A w \in Workers :
        LET lines == fs[Name(w)].lines IN
        /\ CreatedByRun(w) => HeaderCount(lines) = 1 /\ lines[1] = Header
        /\ (fs[Name(w)].exists /\ ~CreatedByRun(w)) =>
              HeaderCount(lines) = HeaderCount(fs0[Name(w)].lines)

\* a worker has ended and the file its run created holds no header
CreatedWithoutHeader ==
    \E w \in Workers :
        /\ wpc[w] = "failed"
        /\ CreatedByRun(w)
        /\ HeaderCount(fs[Name(w)].lines) = 0

\* What holds of the header: a file the run created holds it at most once,
\* as its first line, before any data line; it holds no header only while
\* it is empty, with the header write still ahead or failed.  A file that
\* existed and was not replaced holds as many header lines as before the
\* run: the header is written only into a newly created file.
HeaderOnceAndFirst ==
    \A w \in Workers :
        LET lines == fs[Name(w)].lines IN
        /\ CreatedByRun(w) =>
              /\ HeaderCount(lines) <= 1
              /\ lines # <<>> => lines[1] = Header
              /\ lines = <<>> => \/ wpc[w] = "header"
                                 \/ wpc[w] = "failed" /\ werr[w] \in HeaderErrors
        /\ (fs[Name(w)].exists /\ ~CreatedByRun(w)) =>
              HeaderCount(lines) = HeaderCount(fs0[Name(w)].lines)

\* an equity worker is done with a file it created: the header, then the
\* records of two periods
CreatedFileWritten ==
    \E w \in Workers :
        /\ prog = Stocks
        /\ ~fs0[Name(w)].exists
        /\ wpc[w] = "done"
        /\ Len(fs[Name(w)].lines) >= 3
        /\ HeaderCount(fs[Name(w)].lines) = 1

----------------------------------------------------------------------------
(* What the workers share *)

\* the locals of worker v stay as they are
LocalsUnchanged(v) ==
    /\ wpc'[v] = wpc[v] /\ wpos'[v] = wpos[v] /\ wreq'[v] = wreq[v]
    /\ wsrc'[v] = wsrc[v] /\ wf'[v] = wf[v] /\ wout'[v] = wout[v]
    /\ werr'[v] = werr[v]

\* the running worker w moves in this step
Moves(w) == Running(w) /\ ~LocalsUnchanged(w)

\* C16: every instrument of the input list has exactly one worker, and
\* every worker has run when the driver returns; a file changes only in a
\* step of the running worker dispatched for the instrument it is named
\* after, so never by two workers; and a step of a worker leaves the locals
\* of every other worker, every other file and the driver's variables as
\* they are: what it shares with the others is the group (the semaphore,
\* the wait group, the first error).
OwnFileOnly ==
    /\ [](/\ \A v, w \in Workers : v # w => instruments[v] # instruments[w]
          /\ Waited => \A w \in Workers : wpc[w] \in {"done", "failed"})
    /\ [][\A nm \in DOMAIN fs :
            fs'[nm] # fs[nm] =>
                \E w \in Workers : instruments[w] = nm /\ Moves(w)]_vars
    /\ [][\A w \in Workers :
            Moves(w) =>
                /\ \A nm \in DOMAIN fs : nm # instruments[w] => fs'[nm] = fs[nm]
                /\ \A v \in Workers \ {w} : LocalsUnchanged(v)
                /\ UNCHANGED <<cfgvars, mainvars>>]_vars

\* two workers are in the loop over their records, each with a record of
\* its own written and another one to write
TwoWorkersWriting ==
    \E v, w \in Workers :
        /\ v # w
        /\ wpc[v] \in {"writing", "write"} /\ wpc[w] \in {"writing", "write"}
        /\ wout[v] > 0 /\ wout[w] > 0
        /\ Len(RunPart(v)) > 0 /\ Len(RunPart(w)) > 0

----------------------------------------------------------------------------
(* The pause between periods *)

\* C17: in every worker, of either driver, a period that was processed
\* without error (fetched, and written if it had records) is followed by
\* the pause: the worker leaves the fetch only for the write or the pause,
\* and the write (after its last record) only for the pause, so that the next
\* fetch starts after it.
PauseAfterEachPeriod ==
    [][\A w \in Workers :
          (/\ wpc[w] = "fetching" \/ InWrite(w)
           /\ wpc'[w] # wpc[w]
           /\ wpc'[w] # "failed") =>
              /\ wpc[w] = "fetching" => wpc'[w] \in {"writing", "append", "sleeping"}
              /\ wpc[w] = "append" => wpc'[w] = "write"
              /\ wpc[w] \in {"writing", "write"} => wpc'[w] = "sleeping"]_vars

----------------------------------------------------------------------------
(* The sequence of periods *)

\* the period the loops of worker w reach after the one at `pos`
PeriodAfter(pos) ==
    IF prog = Stocks
    THEN StockPeriod(NextMonth(pos).y, NextMonth(pos).i)
    ELSE ContractPeriod(NextQuarter(pos).y, NextQuarter(pos).i)

\* day is the `wd` (Sunday = 0) of the third week of month m of year y, one
\* or two days before that week's Friday
InRollWeek(day, y, m, wd) ==
    LET c == CivilFromDays(day) IN
    /\ c.y = y /\ c.m = m
    /\ Weekday(day) = wd
    /\ c.d \in (10 + wd)..(16 + wd)

\* C18: the period a worker fetches starts no later than it ends, and ends
\* strictly before the period its loops reach next starts.  An equity period
\* is a calendar month, first to last day.  A derivative period starts on the
\* Thursday before the third Friday of the previous quarter's month (December
\* of the year before, for the first quarter) and ends on the Wednesday
\* before the third Friday of its own month.
PeriodsIncrease ==
    \A w \in Workers :
        wpc[w] = "fetching" =>
            LET y == wpos[w].y
                i == wpos[w].i
            IN  /\ wreq[w].from <= wreq[w].till
                /\ wreq[w].till < PeriodAfter(wpos[w]).from
                /\ prog = Stocks =>
                      /\ CivilFromDays(wreq[w].from) = [y |-> y, m |-> i, d |-> 1]
                      /\ CivilFromDays(wreq[w].till + 1).d = 1
                      /\ wreq[w].till + 1 = PeriodAfter(wpos[w]).from
                /\ prog = Contracts =>
                      /\ IF i = 0 THEN InRollWeek(wreq[w].from, y - 1, 12, 4)
                         ELSE InRollWeek(wreq[w].from, y, 3 * i, 4)
                      /\ InRollWeek(wreq[w].till, y, 3 * i + 3, 3)
                      /\ wreq[w].till + 1 = PeriodAfter(wpos[w]).from

\* a derivative worker fetches the first quarter of the second year of its
\* range: the period starts in December of the first
SecondYearFirstQuarter ==
    \E w \in Workers :
        /\ prog = Contracts
        /\ wpc[w] = "fetching"
        /\ wpos[w] = [y |-> BaseYear + 1, i |-> 0]
        /\ CivilFromDays(wreq[w].from).m = 12

----------------------------------------------------------------------------
(* The third Friday *)

\* a Friday of the calendar: 15 March 2024
KnownFriday == DateDay(2024, 3, 15)

\* the weekdays the 15th falls on in the twelve months of year y
WeekdaysOf15th(y) == {Weekday(DateDay(y, m, 15)) : m \in 1..12}

\* C19: for the year a worker is in and every month, thirdFriday returns a
\* day of that year and month, of day of month 15 to 21, that is a Friday (a
\* whole number of weeks from 15 March 2024, which is its value for March
\* 2024); the end of the quarter the worker fetches is two days before it.
ThirdFridayIsFriday ==
    /\ thirdFriday(2024, 3) = KnownFriday
    /\ \A w \in Workers :
          wpc[w] = "fetching" =>
              /\ \A m \in 1..12 :
                    LET f == thirdFriday(wpos[w].y, m)
                        c == CivilFromDays(f)
                    IN  /\ c.y = wpos[w].y /\ c.m = m
                        /\ c.d \in 15..21
                        /\ (f - KnownFriday) % 7 = 0
                        /\ Weekday(f) = 5
              /\ wreq[w].till + 2 = thirdFriday(wpos[w].y, 3 * wpos[w].i + 3)

\* a worker fetches a quarter of a year in which the 15th falls on each of
\* the seven weekdays, in a quarter month whose 15th is a Saturday: the
\* third Friday is the 21st
SaturdayTheFifteenth ==
    \E w \in Workers :
        /\ wpc[w] = "fetching"
        /\ WeekdaysOf15th(wpos[w].y) = 0..6
        /\ Weekday(DateDay(wpos[w].y, 3 * wpos[w].i + 3, 15)) = 6
        /\ CivilFromDays(wreq[w].till + 2).d = 21

----------------------------------------------------------------------------
(* The order of the columns *)

\* the source of worker w serves well-formed pages, columns in any order
PermutedOnly(w) ==
    \A k \in 1..Len(wsrc[w]) :
        /\ wsrc[w][k].shape = "permuted"
        /\ ~wsrc[w][k].neterr
        /\ wsrc[w][k].status = StatusOK

\* C20: against pages whose columns, names and cells alike, come in another
\* order than the canonical one, Fetch returns without error the candles it
\* returns for the same rows in canonical order: each field is read from the
\* column that carries its name.
ColumnOrderIndependent ==
    \A w \in Workers :
        (wpc[w] = "fetching" /\ wf[w].done /\ wsrc[w] # <<>> /\ PermutedOnly(w)) =>
            LET n == RowsUpTo(w, Len(wf[w].reqs)) IN
            /\ wf[w].err = NoErr
            /\ Len(wf[w].result) = n
            /\ \A i \in 1..n : wf[w].result[i] = Candle(wreq[w].from, i)
            /\ wf[w].result[1] = DecodeRow(GoodRow(wreq[w].from, 1), CanonicalColumns)

\* Fetch has returned the records of a page whose columns are in reverse
\* order, the column begin second and open last
ReversedColumnsFetched ==
    \E w \in Workers :
        /\ wpc[w] = "fetching" /\ wf[w].done
        /\ PermutedOnly(w)
        /\ Len(wsrc[w]) = 1
        /\ Permuted(CanonicalColumns, Served(w, 1).k)[2] = ColBegin
        /\ Permuted(CanonicalColumns, Served(w, 1).k)[8] = ColOpen
        /\ Len(wf[w].result) = 10

----------------------------------------------------------------------------
(* The dispatch after a failure *)

\* a step of the goroutine of the k-th instrument, if the list has one: of
\* its function or of the wrapper around it
WorkerStep(k) == k \in Workers /\ (StepOf(k) \/ GroupStep(k))

\* The runs of Spec under the scheduling of the Go runtime: the driver's
\* goroutine and every worker's goroutine keep running while they can take a
\* step, and every request is answered.
SpecFair ==
    /\ Spec
    /\ WF_vars(Setup) /\ WF_vars(Go) /\ WF_vars(Wait)
    /\ \A k \in 1..MaxInstr : WF_vars(WorkerStep(k))

\* The runs of SpecWork under the same scheduling
SpecWorkFair ==
    /\ SpecWork
    /\ WF_vars(Setup) /\ WF_vars(Go) /\ WF_vars(Wait)
    /\ \A k \in 1..MaxWork : WF_vars(WorkerStep(k))

\* the k-th instrument of the list has run to its completion or its error
Ended(k) == k \in Workers /\ wpc[k] \in {"done", "failed"}

\* C21: in a run that has set up its group, every instrument of the list
\* is eventually started and runs to its completion or its error, also one
\* that was waiting for a slot when a sibling failed; an instrument is
\* started by the driver's Go only, in the order of the list, and once
\* started it is never started again.
EveryInstrumentStarted ==
    /\ (mainpc = "dispatch") ~> (\A k \in Workers : Ended(k))
    /\ [][\A k \in Workers :
            /\ wpc[k] # "idle" => wpc'[k] # "idle"
            /\ (wpc[k] = "idle" /\ wpc'[k] # "idle") =>
                  /\ k = idx /\ idx' = idx + 1 /\ mainpc = "dispatch"
                  /\ wpc'[k] = FirstPc]_vars

\* a worker has failed while the four slots were taken and a fifth
\* instrument waits to be started
WaitingAtFailure ==
    /\ mainpc = "dispatch"
    /\ gerr # Nil /\ cancelled
    /\ \E w \in Workers : wpc[w] = "failed"
    /\ \E k \in Workers : k > Limit /\ wpc[k] = "idle"

----------------------------------------------------------------------------
(* The termination of Fetch *)

\* the source of worker w holds finitely many rows and honours the offset:
\* well-formed pages, each starting where the previous one ended, the last
\* one short
FiniteSource(w) ==
    /\ PagesOnly(w)
    /\ \A k \in 1..Len(wsrc[w]) : wsrc[w][k].from = RowsUpTo(w, k - 1)
    /\ wsrc[w][Len(wsrc[w])].n < PageLimit

\* every page the source of worker w serves is well-formed and full
FullPagesOnly(w) ==
    /\ PagesOnly(w)
    /\ \A k \in 1..Len(wsrc[w]) : wsrc[w][k].n >= PageLimit

\* C22: a Fetch has returned exactly when the last response it read made it
\* fail or was a page of fewer than 500 rows.  Against a source that holds
\* `total` rows and honours the offset it issues at most total \div 500 + 1
\* requests; against a source whose every page is full it has not returned
\* after any number of requests, each request following the previous one at
\* a larger offset.
FetchTermination ==
    \A w \in Workers :
        (wpc[w] = "fetching" /\ wf[w].reqs # <<>>) =>
            LET n == Len(wf[w].reqs) IN
            /\ wf[w].done <=> (wf[w].err # NoErr \/ Served(w, n).n < PageLimit)
            /\ FiniteSource(w) =>
                  n <= RowsUpTo(w, Len(wsrc[w])) \div PageLimit + 1
            /\ FullPagesOnly(w) =>
                  /\ ~wf[w].done
                  /\ Len(wf[w].result) >= PageLimit * n
                  /\ \A k \in 1..(n - 1) : wf[w].reqs[k] < wf[w].reqs[k + 1]

\* a Fetch has read as many full pages as the model lets it request and has
\* not returned
StillFetching ==
    \E w \in Workers :
        /\ wpc[w] = "fetching"
        /\ FullPagesOnly(w)
        /\ Len(wf[w].reqs) = MaxRequests
        /\ ~wf[w].done

====
